---- MODULE Spec2Model ----
(***************************************************************************)
(* im2col_cpu / col2im_cpu of include/im2col.h (channel-last patch matrix) *)
(* as a state machine: one step per iteration of each loop of the source.  *)
(* A driver calls the two routines on named buffers.  Under Spec:          *)
(*    im2col_cpu(x -> ux), col2im_cpu(y -> fy), col2im_cpu(ux -> rt).      *)
(* Under TwiceSpec each routine is called twice on the same input, with    *)
(* output buffers whose prior contents differ:                             *)
(*    im2col_cpu(x -> ux), im2col_cpu(x -> ux2),                           *)
(*    col2im_cpu(y -> fy), col2im_cpu(y -> fy2).                           *)
(* Under ParSpec the outer loop of col2im_cpu(y -> fy) is shared out over  *)
(* unsynchronized workers.                                                 *)
(***************************************************************************)
EXTENDS Integers, Sequences, FiniteSets, TLC

\* ------------------------------------------------------------------ bounds
MaxChannels == 2
MaxHeight == 3
MaxWidth == 3
MaxKernel == 2
MaxPad == 1
MaxStride == 2
MaxColSize == 16
MaxImSize == 12
NWorkers == 2
ParMaxColSize == 6

\* ------------------------------------------------------- integer arithmetic
\* C's int division truncates toward zero (b > 0 here).
CDiv(a, b) == IF a >= 0 THEN a \div b ELSE -((-a) \div b)

\* ---------------------------------------------------------------- geometry
\* im2col_cpu, lines 9-11.
im2col_height_col(g) == CDiv(g.height + 2 * g.pad_h - g.kernel_h, g.stride_h) + 1

im2col_width_col(g) == CDiv(g.width + 2 * g.pad_w - g.kernel_w, g.stride_w) + 1

im2col_channels_col(g) == g.channels * g.kernel_h * g.kernel_w

\* im2col_cpu, lines 13-15 and 18-19.
im2col_w_offset(g, cc) == cc % g.kernel_w

\* Mutant: the row offset decoded with kernel_h as the divisor.
im2col_h_offset_mut(g, cc) == (cc \div g.kernel_h) % g.kernel_h

im2col_h_offset(g, cc) == (cc \div g.kernel_w) % g.kernel_h

im2col_c_im(g, cc) == (cc \div g.kernel_h) \div g.kernel_w

im2col_h_pad(g, cc, hh) == hh * g.stride_h - g.pad_h + im2col_h_offset(g, cc)

\* Mutant: the column coordinate scaled by the row stride.
im2col_w_pad_mut(g, cc, ww) == ww * g.stride_h - g.pad_w + im2col_w_offset(g, cc)

im2col_w_pad(g, cc, ww) == ww * g.stride_w - g.pad_w + im2col_w_offset(g, cc)

\* Mutant: the in-image test accepts h_pad = height.
im2col_InImage_mut(g, hp, wp) == hp >= 0 /\ hp <= g.height /\ wp >= 0 /\ wp < g.width

\* im2col_cpu, line 20.
im2col_InImage(g, hp, wp) == hp >= 0 /\ hp < g.height /\ wp >= 0 /\ wp < g.width

\* Mutant: the row stride of the patch matrix taken as channels_col*height_col.
im2col_ColIndex_mut(g, cc, hh, ww) ==
    im2col_channels_col(g) * im2col_height_col(g) * hh + im2col_channels_col(g) * ww + cc

\* im2col_cpu, lines 21 and 24: the subscript of data_col.
im2col_ColIndex(g, cc, hh, ww) ==
    im2col_channels_col(g) * im2col_width_col(g) * hh + im2col_channels_col(g) * ww + cc

\* im2col_cpu, line 22: the subscript of data_im.
im2col_ImIndex(g, cc, hh, ww) ==
    (im2col_c_im(g, cc) * g.height + im2col_h_pad(g, cc, hh)) * g.width
        + im2col_w_pad(g, cc, ww)

\* Mutant: the last output row is left out.
col2im_height_col_mut(g) == CDiv(g.height + 2 * g.pad_h - g.kernel_h, g.stride_h)

\* col2im_cpu, lines 37-39 (patch_h, patch_w are the kernel sizes).
col2im_height_col(g) == CDiv(g.height + 2 * g.pad_h - g.kernel_h, g.stride_h) + 1

col2im_width_col(g) == CDiv(g.width + 2 * g.pad_w - g.kernel_w, g.stride_w) + 1

col2im_channels_col(g) == g.channels * g.kernel_h * g.kernel_w

\* Mutant: the column offset decoded with patch_h.
col2im_w_offset_mut(g, cc) == cc % g.kernel_h

\* col2im_cpu, lines 41-43 and 46-47.
col2im_w_offset(g, cc) == cc % g.kernel_w

col2im_h_offset(g, cc) == (cc \div g.kernel_w) % g.kernel_h

col2im_c_im(g, cc) == (cc \div g.kernel_h) \div g.kernel_w

\* Mutant: the row coordinate computed without the stride.
col2im_h_pad_mut(g, cc, hh) == hh - g.pad_h + col2im_h_offset(g, cc)

col2im_h_pad(g, cc, hh) == hh * g.stride_h - g.pad_h + col2im_h_offset(g, cc)

col2im_w_pad(g, cc, ww) == ww * g.stride_w - g.pad_w + col2im_w_offset(g, cc)

\* col2im_cpu, line 48.
col2im_InImage(g, hp, wp) == hp >= 0 /\ hp < g.height /\ wp >= 0 /\ wp < g.width

\* col2im_cpu, line 50: the subscript of data_col.
col2im_ColIndex(g, cc, hh, ww) ==
    col2im_channels_col(g) * col2im_width_col(g) * hh + col2im_channels_col(g) * ww + cc

\* col2im_cpu, line 49: the subscript of data_im.
col2im_ImIndex(g, cc, hh, ww) ==
    (col2im_c_im(g, cc) * g.height + col2im_h_pad(g, cc, hh)) * g.width
        + col2im_w_pad(g, cc, ww)

\* Mutant: the zeroing loop covers one channel only.
col2im_ZeroCount_mut(g) == g.height * g.width

\* col2im_cpu, line 36: the bound of the zeroing loop.
col2im_ZeroCount(g) == g.height * g.width * g.channels

\* The sizes at which the caller allocates the two buffers.
ColSize(g) == im2col_height_col(g) * im2col_width_col(g) * im2col_channels_col(g)

ImSize(g) == g.channels * g.height * g.width

\* The caller contract: positive sizes, non-negative padding, non-empty output
\* (within the model's bounds on the buffer sizes).
ValidGeometry(g) ==
    /\ im2col_height_col(g) >= 1
    /\ im2col_width_col(g) >= 1
    /\ ColSize(g) <= MaxColSize
    /\ ImSize(g) <= MaxImSize

\* The geometry of the one concrete scenario the routines are documented with:
\* one channel, a 4x4 image, a 3x3 kernel, no padding, stride 1.
Scenario ==
    [channels |-> 1, height |-> 4, width |-> 4, kernel_h |-> 3, kernel_w |-> 3,
     pad_h |-> 0, pad_w |-> 0, stride_h |-> 1, stride_w |-> 1]

Geometries ==
    { g \in [channels : 1..MaxChannels, height : 1..MaxHeight, width : 1..MaxWidth,
             kernel_h : 1..MaxKernel, kernel_w : 1..MaxKernel,
             pad_h : 0..MaxPad, pad_w : 0..MaxPad,
             stride_h : 1..MaxStride, stride_w : 1..MaxStride] : ValidGeometry(g) }
    \cup {Scenario}

\* ------------------------------------------------------------------ inputs
\* The contents the caller passes in: all ones, the ramp 1, 2, 3, ... or the
\* alternating-sign pattern 1, -3, 7, -13, ... (pairwise different, non-zero)
\* for the image x and the patch matrix y, and two different kinds of junk for
\* the output buffers.
Pattern(kind, n) ==
    [j \in 0..(n - 1) |->
        CASE kind = "ones" -> 1
          [] kind = "ramp" -> j + 1
          [] kind = "alt" -> (IF j % 2 = 0 THEN 1 ELSE -1) * (j * j + j + 1)
          [] kind = "junkA" -> 40 + j
          [] kind = "junkB" -> -(50 + 2 * j)]

InputCases == { [x |-> "ones", y |-> "ones"], [x |-> "ramp", y |-> "alt"] }

\* ------------------------------------------------------------------ driver
Script ==
    << [fn |-> "im2col", in |-> "x", out |-> "ux"],
       [fn |-> "col2im", in |-> "y", out |-> "fy"],
       [fn |-> "col2im", in |-> "ux", out |-> "rt"] >>

ScriptTwice ==
    << [fn |-> "im2col", in |-> "x", out |-> "ux"],
       [fn |-> "im2col", in |-> "x", out |-> "ux2"],
       [fn |-> "col2im", in |-> "y", out |-> "fy"],
       [fn |-> "col2im", in |-> "y", out |-> "fy2"] >>

VARIABLES geom, kinds, script, buf, call, pc, c, h, w, i, wr, in0, fault, par

vars == << geom, kinds, script, buf, call, pc, c, h, w, i, wr, in0, fault, par >>

cur == script[call]

\* Ghost: wr[k] lists the loop iterations <<c, h, w>> that stored to element k
\* of the current call's output buffer in its main loop nest.
NoWrites(n) == [k \in 0..(n - 1) |-> << >>]

OutSize(g, fn) == IF fn = "im2col" THEN ColSize(g) ELSE ImSize(g)

\* The state on entry to the first call of the script scr.
Start(scr) ==
    \E g \in Geometries, k \in InputCases :
        /\ geom = g
        /\ kinds = k
        /\ script = scr
        /\ buf = [x |-> Pattern(k.x, ImSize(g)),
                  y |-> Pattern(k.y, ColSize(g)),
                  ux |-> Pattern("junkA", ColSize(g)),
                  fy |-> Pattern("junkA", ImSize(g)),
                  rt |-> Pattern("junkB", ImSize(g)),
                  ux2 |-> Pattern("junkB", ColSize(g)),
                  fy2 |-> Pattern("junkB", ImSize(g))]
        /\ call = 1
        /\ pc = "loop"
        /\ c = 0 /\ h = 0 /\ w = 0 /\ i = 0
        /\ wr = NoWrites(ColSize(g))
        /\ in0 = Pattern(k.x, ImSize(g))
        /\ fault = FALSE
        /\ par = << >>

Init == Start(Script)

TwiceInit == Start(ScriptTwice)

\* for-loop headers of lines 12/16/17 (40/44/45): ++w, then ++h, then ++c.
\* Each loop is entered with its condition true: channels_col, height_col and
\* width_col are all >= 1 for the geometries of the caller contract.
Advance(width_col, height_col, channels_col) ==
    IF w + 1 < width_col
    THEN /\ w' = w + 1 /\ UNCHANGED << c, h, pc >>
    ELSE IF h + 1 < height_col
    THEN /\ w' = 0 /\ h' = h + 1 /\ UNCHANGED << c, pc >>
    ELSE IF c + 1 < channels_col
    THEN /\ w' = 0 /\ h' = 0 /\ c' = c + 1 /\ UNCHANGED pc
    ELSE /\ w' = 0 /\ h' = 0 /\ c' = c + 1 /\ pc' = "ret"

\* Mutant: the else branch of line 23 stores nothing.
Im2colBody_mut ==
    /\ pc = "loop" /\ cur.fn = "im2col" /\ ~fault
    /\ LET hp == im2col_h_pad(geom, c, h)
           wp == im2col_w_pad(geom, c, w)
           ci == im2col_ColIndex(geom, c, h, w)
           ii == im2col_ImIndex(geom, c, h, w)
       IN IF ci \notin DOMAIN buf[cur.out]
             \/ (im2col_InImage(geom, hp, wp) /\ ii \notin DOMAIN buf[cur.in])
          THEN /\ fault' = TRUE
               /\ UNCHANGED << buf, wr, c, h, w, pc >>
          ELSE /\ buf' = IF im2col_InImage(geom, hp, wp)
                           THEN [buf EXCEPT ![cur.out][ci] = buf[cur.in][ii]]
                           ELSE buf
               /\ wr' = [wr EXCEPT ![ci] = Append(@, << c, h, w >>)]
               /\ Advance(im2col_width_col(geom), im2col_height_col(geom),
                          im2col_channels_col(geom))
               /\ UNCHANGED fault
    /\ UNCHANGED << geom, kinds, script, call, i, in0, par >>

\* One iteration of the body of im2col_cpu's loop nest (lines 18-24).
Im2colBody ==
    /\ pc = "loop" /\ cur.fn = "im2col" /\ ~fault
    /\ LET hp == im2col_h_pad(geom, c, h)
           wp == im2col_w_pad(geom, c, w)
           ci == im2col_ColIndex(geom, c, h, w)
           ii == im2col_ImIndex(geom, c, h, w)
       IN IF ci \notin DOMAIN buf[cur.out]
             \/ (im2col_InImage(geom, hp, wp) /\ ii \notin DOMAIN buf[cur.in])
          THEN /\ fault' = TRUE
               /\ UNCHANGED << buf, wr, c, h, w, pc >>
          ELSE /\ buf' = [buf EXCEPT ![cur.out][ci] =
                              IF im2col_InImage(geom, hp, wp) THEN buf[cur.in][ii] ELSE 0]
               /\ wr' = [wr EXCEPT ![ci] = Append(@, << c, h, w >>)]
               /\ Advance(im2col_width_col(geom), im2col_height_col(geom),
                          im2col_channels_col(geom))
               /\ UNCHANGED fault
    /\ UNCHANGED << geom, kinds, script, call, i, in0, par >>

\* One iteration of col2im_cpu's zeroing loop (line 36).
Col2imZero ==
    /\ pc = "zero" /\ cur.fn = "col2im" /\ ~fault
    /\ IF i < col2im_ZeroCount(geom)
       THEN /\ IF i \in DOMAIN buf[cur.out]
               THEN /\ buf' = [buf EXCEPT ![cur.out][i] = 0]
                    /\ i' = i + 1
                    /\ UNCHANGED fault
               ELSE /\ fault' = TRUE
                    /\ UNCHANGED << buf, i >>
            /\ UNCHANGED pc
       ELSE /\ pc' = "loop"
            /\ UNCHANGED << buf, i, fault >>
    /\ UNCHANGED << geom, kinds, script, call, c, h, w, wr, in0, par >>

\* Mutant: line 49 assigns instead of adding.
Col2imBody_mut ==
    /\ pc = "loop" /\ cur.fn = "col2im" /\ ~fault
    /\ LET hp == col2im_h_pad(geom, c, h)
           wp == col2im_w_pad(geom, c, w)
           ci == col2im_ColIndex(geom, c, h, w)
           ii == col2im_ImIndex(geom, c, h, w)
       IN IF col2im_InImage(geom, hp, wp)
          THEN IF ii \notin DOMAIN buf[cur.out] \/ ci \notin DOMAIN buf[cur.in]
               THEN /\ fault' = TRUE
                    /\ UNCHANGED << buf, wr, c, h, w, pc >>
               ELSE /\ buf' = [buf EXCEPT ![cur.out][ii] = buf[cur.in][ci]]
                    /\ wr' = [wr EXCEPT ![ii] = Append(@, << c, h, w >>)]
                    /\ Advance(col2im_width_col(geom), col2im_height_col(geom),
                          col2im_channels_col(geom))
                    /\ UNCHANGED fault
          ELSE /\ Advance(col2im_width_col(geom), col2im_height_col(geom),
                          col2im_channels_col(geom))
               /\ UNCHANGED << buf, wr, fault >>
    /\ UNCHANGED << geom, kinds, script, call, i, in0, par >>

\* One iteration of the body of col2im_cpu's loop nest (lines 46-50).
Col2imBody ==
    /\ pc = "loop" /\ cur.fn = "col2im" /\ ~fault
    /\ LET hp == col2im_h_pad(geom, c, h)
           wp == col2im_w_pad(geom, c, w)
           ci == col2im_ColIndex(geom, c, h, w)
           ii == col2im_ImIndex(geom, c, h, w)
       IN IF col2im_InImage(geom, hp, wp)
          THEN IF ii \notin DOMAIN buf[cur.out] \/ ci \notin DOMAIN buf[cur.in]
               THEN /\ fault' = TRUE
                    /\ UNCHANGED << buf, wr, c, h, w, pc >>
               ELSE /\ buf' = [buf EXCEPT ![cur.out][ii] = @ + buf[cur.in][ci]]
                    /\ wr' = [wr EXCEPT ![ii] = Append(@, << c, h, w >>)]
                    /\ Advance(col2im_width_col(geom), col2im_height_col(geom),
                          col2im_channels_col(geom))
                    /\ UNCHANGED fault
          ELSE /\ Advance(col2im_width_col(geom), col2im_height_col(geom),
                          col2im_channels_col(geom))
               /\ UNCHANGED << buf, wr, fault >>
    /\ UNCHANGED << geom, kinds, script, call, i, in0, par >>

\* The driver returns from one call and enters the next one of Script.
NextCall ==
    /\ pc = "ret" /\ call < Len(script)
    /\ call' = call + 1
    /\ pc' = IF script[call + 1].fn = "col2im" THEN "zero" ELSE "loop"
    /\ c' = 0 /\ h' = 0 /\ w' = 0 /\ i' = 0
    /\ wr' = NoWrites(OutSize(geom, script[call + 1].fn))
    /\ in0' = buf[script[call + 1].in]
    /\ UNCHANGED << geom, kinds, script, buf, fault, par >>

Next == Im2colBody \/ Col2imZero \/ Col2imBody \/ NextCall

Spec == Init /\ [][Next]_vars

TwiceSpec == TwiceInit /\ [][Next]_vars

\* ------------------------------------------------- parallelized col2im_cpu
\* The outer loop of col2im_cpu (line 40) shared out over NWorkers workers,
\* worker t taking c = t-1, t-1+NWorkers, ...; the += of lines 49-50 is a load
\* of data_im followed by a store, with nothing between the workers to order
\* them.  The zeroing loop of line 36 runs before the workers start.
ParInit ==
    \E g \in Geometries, ky \in {"ones", "ramp"} :
        /\ ColSize(g) <= ParMaxColSize
        /\ geom = g
        /\ kinds = [x |-> "ones", y |-> ky]
        /\ script = Script
        /\ buf = [x |-> Pattern("ones", ImSize(g)),
                  y |-> Pattern(ky, ColSize(g)),
                  ux |-> Pattern("junkA", ColSize(g)),
                  fy |-> Pattern("junkA", ImSize(g)),
                  rt |-> Pattern("junkB", ImSize(g)),
                  ux2 |-> Pattern("junkB", ColSize(g)),
                  fy2 |-> Pattern("junkB", ImSize(g))]
        /\ call = 2
        /\ pc = "zero"
        /\ c = 0 /\ h = 0 /\ w = 0 /\ i = 0
        /\ wr = NoWrites(ImSize(g))
        /\ in0 = Pattern(ky, ColSize(g))
        /\ fault = FALSE
        /\ par = << >>

ParFork ==
    /\ pc = "loop" /\ cur.fn = "col2im" /\ par = << >>
    /\ pc' = "par"
    /\ par' = [t \in 1..NWorkers |->
                 [c |-> t - 1, h |-> 0, w |-> 0, tmp |-> 0,
                  ph |-> IF t - 1 < col2im_channels_col(geom) THEN "load" ELSE "done"]]
    /\ UNCHANGED << geom, kinds, script, buf, call, c, h, w, i, wr, in0, fault >>

\* Worker t's loop headers: ++w, then ++h, then c += NWorkers.
ParAdvance(p) ==
    IF p.w + 1 < col2im_width_col(geom)
    THEN [p EXCEPT !.w = p.w + 1, !.ph = "load"]
    ELSE IF p.h + 1 < col2im_height_col(geom)
    THEN [p EXCEPT !.w = 0, !.h = p.h + 1, !.ph = "load"]
    ELSE [p EXCEPT !.w = 0, !.h = 0, !.c = p.c + NWorkers,
                   !.ph = IF p.c + NWorkers < col2im_channels_col(geom)
                          THEN "load" ELSE "done"]

\* Lines 46-48 and the read half of lines 49-50.
ParLoad(t) ==
    /\ pc = "par" /\ par[t].ph = "load"
    /\ LET p == par[t]
           hp == col2im_h_pad(geom, p.c, p.h)
           wp == col2im_w_pad(geom, p.c, p.w)
           ci == col2im_ColIndex(geom, p.c, p.h, p.w)
           ii == col2im_ImIndex(geom, p.c, p.h, p.w)
       IN IF col2im_InImage(geom, hp, wp)
          THEN IF ii \notin DOMAIN buf[cur.out] \/ ci \notin DOMAIN buf[cur.in]
               THEN /\ fault' = TRUE
                    /\ par' = [par EXCEPT ![t].ph = "done"]
               ELSE /\ par' = [par EXCEPT ![t].tmp = buf[cur.out][ii] + buf[cur.in][ci],
                                          ![t].ph = "store"]
                    /\ UNCHANGED fault
          ELSE /\ par' = [par EXCEPT ![t] = ParAdvance(p)]
               /\ UNCHANGED fault
    /\ UNCHANGED << geom, kinds, script, buf, call, pc, c, h, w, i, wr, in0 >>

\* The write half of lines 49-50.
ParStore(t) ==
    /\ pc = "par" /\ par[t].ph = "store"
    /\ LET p == par[t]
           ii == col2im_ImIndex(geom, p.c, p.h, p.w)
       IN /\ buf' = [buf EXCEPT ![cur.out][ii] = p.tmp]
          /\ wr' = [wr EXCEPT ![ii] = Append(@, << p.c, p.h, p.w >>)]
          /\ par' = [par EXCEPT ![t] = ParAdvance(p)]
    /\ UNCHANGED << geom, kinds, script, call, pc, c, h, w, i, in0, fault >>

ParJoin ==
    /\ pc = "par" /\ \A t \in 1..NWorkers : par[t].ph = "done"
    /\ pc' = "ret"
    /\ UNCHANGED << geom, kinds, script, buf, call, c, h, w, i, wr, in0, fault, par >>

ParNext ==
    \/ Col2imZero
    \/ ParFork
    \/ \E t \in 1..NWorkers : ParLoad(t)
    \/ \E t \in 1..NWorkers : ParStore(t)
    \/ ParJoin

ParSpec == ParInit /\ [][ParNext]_vars

\* ================================================================ claims
\* The documented index algebra, written out on its own (not through the
\* operators that model the code) so that the code is checked against it.
HC(g) == im2col_height_col(g)

WC(g) == im2col_width_col(g)

CC(g) == g.channels * g.kernel_h * g.kernel_w

Triples(g) == (0..(HC(g) - 1)) \X (0..(WC(g) - 1)) \X (0..(CC(g) - 1))

Slot(g, hh, ww, cc) == CC(g) * WC(g) * hh + CC(g) * ww + cc

DecW(g, cc) == cc % g.kernel_w

DecH(g, cc) == (cc \div g.kernel_w) % g.kernel_h

DecC(g, cc) == cc \div (g.kernel_h * g.kernel_w)

HPad(g, hh, cc) == hh * g.stride_h - g.pad_h + DecH(g, cc)

WPad(g, ww, cc) == ww * g.stride_w - g.pad_w + DecW(g, cc)

Inside(g, r, q) == r \in 0..(g.height - 1) /\ q \in 0..(g.width - 1)

Loc(g, ch, r, q) == (ch * g.height + r) * g.width + q

Locations(g) == (0..(g.channels - 1)) \X (0..(g.height - 1)) \X (0..(g.width - 1))

\* The slots <<h, w, c>> whose decoded source is image location <<ch, r, q>>.
Covering(g, ch, r, q) ==
    { t \in Triples(g) : /\ DecC(g, t[3]) = ch
                         /\ HPad(g, t[1], t[3]) = r
                         /\ WPad(g, t[2], t[3]) = q }

\* The output positions <<h, w>> whose kernel window contains row r, column q.
Windows(g, r, q) ==
    { p \in (0..(HC(g) - 1)) \X (0..(WC(g) - 1)) :
        /\ p[1] * g.stride_h - g.pad_h <= r
        /\ r < p[1] * g.stride_h - g.pad_h + g.kernel_h
        /\ p[2] * g.stride_w - g.pad_w <= q
        /\ q < p[2] * g.stride_w - g.pad_w + g.kernel_w }

RECURSIVE SumOver(_, _)
SumOver(S, f) ==
    IF S = {} THEN 0
    ELSE LET e == CHOOSE e \in S : TRUE IN f[e] + SumOver(S \ {e}, f)

Dot(a, b) == SumOver(DOMAIN a, [k \in DOMAIN a |-> a[k] * b[k]])

Done(out) == pc = "ret" /\ cur.out = out /\ ~fault

ReturnedFrom(fn) == pc = "ret" /\ cur.fn = fn /\ ~fault

ScenarioRun == geom = Scenario /\ kinds.x = "ramp"

\* What Unfold must leave in data_col, given data_im.
UnfoldOf(g, im) ==
    [k \in 0..(HC(g) * WC(g) * CC(g) - 1) |->
        LET t == CHOOSE t \in Triples(g) : Slot(g, t[1], t[2], t[3]) = k
        IN IF Inside(g, HPad(g, t[1], t[3]), WPad(g, t[2], t[3]))
           THEN im[Loc(g, DecC(g, t[3]), HPad(g, t[1], t[3]), WPad(g, t[2], t[3]))]
           ELSE 0]

\* C1: when im2col_cpu returns, every slot data_col[channels_col*width_col*h +
\* channels_col*w + c] holds data_im[(c_im*height + h_pad)*width + w_pad] if
\* (h_pad, w_pad) is inside the image and 0 otherwise; in the 4x4 / 3x3
\* scenario on the image 1..16 the slots of output position (0,0) hold
\* 1,2,3,5,6,7,9,10,11.
C1_UnfoldContract ==
    /\ ReturnedFrom("im2col") =>
          \A t \in Triples(geom) :
             LET hp == HPad(geom, t[1], t[3])
                 wp == WPad(geom, t[2], t[3])
             IN buf[cur.out][Slot(geom, t[1], t[2], t[3])] =
                   IF Inside(geom, hp, wp)
                   THEN buf[cur.in][Loc(geom, DecC(geom, t[3]), hp, wp)]
                   ELSE 0
    /\ (Done("ux") /\ ScenarioRun) =>
          [k \in 0..8 |-> buf.ux[k]] =
             [k \in 0..8 |-> << 1, 2, 3, 5, 6, 7, 9, 10, 11 >>[k + 1]]

C1_Witness ==
    /\ Done("ux") /\ geom.channels = 2 /\ geom.pad_h = 1 /\ geom.stride_w = 2
    /\ geom.kernel_h = 2 /\ geom.kernel_w = 1 /\ kinds.x = "ramp"
    /\ \E k \in DOMAIN buf.ux : buf.ux[k] = 0
    /\ \E k \in DOMAIN buf.ux : buf.ux[k] = ImSize(geom)

C1_ScenarioWitness == Done("ux") /\ ScenarioRun /\ buf.ux[8] = 11

\* C2: when col2im_cpu returns, every image location (c_im, r, q) holds the sum
\* of data_col over exactly the slots (h, w, c) that decode to that location;
\* slots that decode outside the image are added nowhere and locations no slot
\* decodes to hold 0.
C2_FoldContract ==
    ReturnedFrom("col2im") =>
       LET col == [t \in Triples(geom) |-> buf[cur.in][Slot(geom, t[1], t[2], t[3])]]
       IN \A l \in Locations(geom) :
             buf[cur.out][Loc(geom, l[1], l[2], l[3])] =
                SumOver(Covering(geom, l[1], l[2], l[3]), col)

C2_Witness ==
    /\ Done("fy") /\ kinds.y = "alt" /\ geom.channels = 2
    /\ \E l \in Locations(geom) : Cardinality(Covering(geom, l[1], l[2], l[3])) >= 2
    /\ \E l \in Locations(geom) :
          /\ Covering(geom, l[1], l[2], l[3]) = {}
          /\ buf.fy[Loc(geom, l[1], l[2], l[3])] = 0
    /\ \E t \in Triples(geom) : ~Inside(geom, HPad(geom, t[1], t[3]), WPad(geom, t[2], t[3]))

NonOverlapping(g) ==
    /\ g.stride_h >= g.kernel_h /\ g.stride_w >= g.kernel_w
    /\ g.pad_h = 0 /\ g.pad_w = 0

\* C3 as stated: with stride >= kernel and no padding, Fold(Unfold(image)) is
\* the image at every location.
C3_RoundTripExact ==
    (Done("rt") /\ NonOverlapping(geom)) => buf.rt = buf.x

\* C3 amended: with stride >= kernel and no padding, every image location is
\* added to at most once, and Fold(Unfold(image)) holds the image's value at
\* the locations some kernel window contains and 0 at the others.
C3_RoundTripCovered ==
    (Done("rt") /\ NonOverlapping(geom)) =>
       \A l \in Locations(geom) :
          LET j == Loc(geom, l[1], l[2], l[3])
          IN /\ Len(wr[j]) <= 1
             /\ buf.rt[j] = IF Windows(geom, l[2], l[3]) # {} THEN buf.x[j] ELSE 0

C3_Witness ==
    /\ Done("rt") /\ NonOverlapping(geom) /\ kinds.x = "ramp"
    /\ \E l \in Locations(geom) : Windows(geom, l[2], l[3]) = {}
    /\ \E l \in Locations(geom) :
          /\ Windows(geom, l[2], l[3]) # {}
          /\ buf.rt[Loc(geom, l[1], l[2], l[3])] = buf.x[Loc(geom, l[1], l[2], l[3])]

StrideBelowKernel(g) == g.stride_h < g.kernel_h \/ g.stride_w < g.kernel_w

\* C4: with stride < kernel, col2im_cpu of an all-ones patch matrix leaves at
\* every image location the number of output positions whose kernel window
\* contains it; in the 4x4 / 3x3 scenario that is 1 2 2 1 / 2 4 4 2 / 2 4 4 2 /
\* 1 2 2 1.
C4_OverlapCounts ==
    /\ (Done("fy") /\ kinds.y = "ones" /\ StrideBelowKernel(geom)) =>
          \A l \in Locations(geom) :
             buf.fy[Loc(geom, l[1], l[2], l[3])] = Cardinality(Windows(geom, l[2], l[3]))
    /\ (Done("fy") /\ kinds.y = "ones" /\ geom = Scenario) =>
          buf.fy = [k \in 0..15 |->
                      << 1, 2, 2, 1, 2, 4, 4, 2, 2, 4, 4, 2, 1, 2, 2, 1 >>[k + 1]]

C4_Witness ==
    /\ Done("fy") /\ kinds.y = "ones" /\ geom = Scenario
    /\ buf.fy[5] = 4 /\ buf.fy[0] = 1

\* C5: im2col_cpu stores to every element of the patch matrix exactly once: no
\* element is stored to twice at any point of the loop nest, and on return each
\* of the height_col*width_col*channels*kernel_h*kernel_w elements has been
\* stored to once, by the iteration (c, h, w) whose documented offset it is.
C5_WrittenOnce ==
    (cur.fn = "im2col") =>
       /\ ~fault
       /\ \A k \in DOMAIN wr : Len(wr[k]) <= 1
       /\ (pc = "ret") =>
             /\ DOMAIN wr = 0..(HC(geom) * WC(geom) * geom.channels
                                   * geom.kernel_h * geom.kernel_w - 1)
             /\ DOMAIN buf[cur.out] = DOMAIN wr
             /\ \A k \in DOMAIN wr :
                   /\ Len(wr[k]) = 1
                   /\ Slot(geom, wr[k][1][2], wr[k][1][3], wr[k][1][1]) = k

C5_Witness ==
    /\ Done("ux") /\ HC(geom) >= 2 /\ WC(geom) >= 2 /\ geom.channels = 2
    /\ geom.kernel_w = 2
    /\ \A k \in DOMAIN wr : Len(wr[k]) = 1

\* C6: with padding, im2col_cpu of an all-ones image leaves 0 in exactly the
\* slots that decode outside the image and 1 in all others, whatever the patch
\* buffer held before the call.
C6_ZeroPadding ==
    (ReturnedFrom("im2col") /\ kinds.x = "ones" /\ (geom.pad_h > 0 \/ geom.pad_w > 0)) =>
       \A t \in Triples(geom) :
          /\ buf[cur.out][Slot(geom, t[1], t[2], t[3])] = 0
                <=> ~Inside(geom, HPad(geom, t[1], t[3]), WPad(geom, t[2], t[3]))
          /\ buf[cur.out][Slot(geom, t[1], t[2], t[3])] \in {0, 1}

C6_Witness ==
    /\ Done("ux") /\ kinds.x = "ones" /\ geom.pad_h > 0 /\ geom.pad_w > 0
    /\ \E k \in DOMAIN buf.ux : buf.ux[k] = 0
    /\ \E k \in DOMAIN buf.ux : buf.ux[k] = 1

\* C7: <Unfold(x), y> = <x, Fold(y)> for every geometry, image x and patch
\* matrix y: col2im_cpu is the transpose of im2col_cpu.
C7_Adjoint ==
    Done("fy") => Dot(buf.ux, buf.y) = Dot(buf.x, buf.fy)

C7_Witness ==
    /\ Done("fy") /\ kinds.x = "ramp" /\ kinds.y = "alt"
    /\ geom.pad_h = 1 /\ geom.stride_w = 2 /\ geom.channels = 2
    /\ Dot(buf.ux, buf.y) # 0

\* C8: the result of either routine does not depend on what its output buffer
\* held before: two calls with the same input and different prior output
\* contents return equal outputs; col2im_cpu has zeroed the whole image before
\* its first addition; and no call changes its input buffer.
C8_PriorContentsIrrelevant ==
    /\ Done("ux2") => buf.ux2 = buf.ux
    /\ Done("fy2") => buf.fy2 = buf.fy
    /\ (cur.fn = "col2im" /\ pc = "loop" /\ c = 0 /\ h = 0 /\ w = 0) =>
          buf[cur.out] = [k \in 0..(geom.channels * geom.height * geom.width - 1) |-> 0]
    /\ buf[cur.in] = in0
    /\ Done("fy2") => (buf.x = Pattern(kinds.x, ImSize(geom))
                          /\ buf.y = Pattern(kinds.y, ColSize(geom)))

C8_Witness ==
    /\ Done("fy2") /\ buf.fy2 = buf.fy /\ buf.ux2 = buf.ux
    /\ \A k \in DOMAIN buf.fy : Pattern("junkA", ImSize(geom))[k] # Pattern("junkB", ImSize(geom))[k]
    /\ \E k \in DOMAIN buf.fy : buf.fy[k] # 0

\* C9: every subscript either routine uses is inside its buffer: no step
\* faults, and the subscripts of the iteration about to run are in range.
C9_MemorySafe ==
    /\ ~fault
    /\ (pc = "ret") =>
          /\ DOMAIN buf[cur.in] = 0..(OutSize(geom, IF cur.fn = "im2col" THEN "col2im" ELSE "im2col") - 1)
          /\ DOMAIN buf[cur.out] = 0..(OutSize(geom, cur.fn) - 1)
    /\ (pc = "loop" /\ cur.fn = "im2col") =>
          /\ im2col_ColIndex(geom, c, h, w) \in 0..(HC(geom) * WC(geom) * CC(geom) - 1)
          /\ (im2col_InImage(geom, im2col_h_pad(geom, c, h), im2col_w_pad(geom, c, w)) =>
                im2col_ImIndex(geom, c, h, w) \in 0..(geom.channels * geom.height * geom.width - 1))
    /\ (pc = "loop" /\ cur.fn = "col2im"
           /\ col2im_InImage(geom, col2im_h_pad(geom, c, h), col2im_w_pad(geom, c, w))) =>
             /\ col2im_ColIndex(geom, c, h, w) \in 0..(HC(geom) * WC(geom) * CC(geom) - 1)
             /\ col2im_ImIndex(geom, c, h, w) \in 0..(geom.channels * geom.height * geom.width - 1)
    /\ (pc = "zero" /\ i < geom.height * geom.width * geom.channels) =>
          i \in DOMAIN buf[cur.out]

C9_Witness ==
    /\ Done("rt") /\ geom.pad_h = 1 /\ geom.pad_w = 1 /\ geom.channels = 2
    /\ geom.kernel_h = 2

\* The patch slots stored into image element j so far, as <<c, h, w>>.
Adders(j) == { wr[j][n] : n \in 1..Len(wr[j]) }

\* C10: when col2im_cpu returns, every patch slot has been added into at most
\* one image location (the one it decodes to, and once); two slots of one output position (h, w) are never added into the
\* same location; a location is added to more than once only by slots of
\* different output positions and only if stride_h < kernel_h or stride_w <
\* kernel_w.  With the outer loop run by unsynchronized workers, stride >=
\* kernel in both dimensions therefore still returns the exact sums, while
\* stride < kernel can return an image in which an addition is lost.
C10_Collisions ==
    (cur.fn = "col2im" /\ pc = "ret") =>
       /\ \A j \in DOMAIN wr :
             /\ \A m, n \in 1..Len(wr[j]) :
                   m # n => /\ << wr[j][m][2], wr[j][m][3] >> # << wr[j][n][2], wr[j][n][3] >>
                            /\ wr[j][m] # wr[j][n]
             /\ Len(wr[j]) >= 2 => StrideBelowKernel(geom)
             /\ \A n \in 1..Len(wr[j]) :
                   LET cc == wr[j][n][1]
                       hh == wr[j][n][2]
                       ww == wr[j][n][3]
                   IN /\ << hh, ww, cc >> \in Triples(geom)
                      /\ Inside(geom, HPad(geom, hh, cc), WPad(geom, ww, cc))
                      /\ Loc(geom, DecC(geom, cc), HPad(geom, hh, cc), WPad(geom, ww, cc)) = j
       /\ ~StrideBelowKernel(geom) =>
             LET col == [t \in Triples(geom) |->
                            buf[cur.in][Slot(geom, t[1], t[2], t[3])]]
             IN \A l \in Locations(geom) :
                   /\ Len(wr[Loc(geom, l[1], l[2], l[3])]) <= 1
                   /\ buf[cur.out][Loc(geom, l[1], l[2], l[3])] =
                         SumOver(Covering(geom, l[1], l[2], l[3]), col)

\* A parallel run that has returned with an addition lost.
C10_LostUpdate ==
    /\ pc = "ret" /\ par # << >> /\ StrideBelowKernel(geom) /\ ~fault
    /\ \E l \in Locations(geom) :
          /\ Len(wr[Loc(geom, l[1], l[2], l[3])]) >= 2
          /\ buf.fy[Loc(geom, l[1], l[2], l[3])] #
                SumOver(Covering(geom, l[1], l[2], l[3]),
                        [t \in Triples(geom) |-> buf.y[Slot(geom, t[1], t[2], t[3])]])

====
